---- MODULE Spec2Model ----
(***************************************************************************)
(* MemMachine API v2: the router (server/api_v2/router.py) and the filter  *)
(* parser (server/api_v2/filter_parser.py); and the installer              *)
(* (installation/memmachine_configure.py).                                 *)
(*                                                                         *)
(* Text is modelled as a sequence of one-character strings, so that        *)
(* split / strip / "in" are computed as Python computes them.  Prompt      *)
(* templates are sequences of tokens (a placeholder such as {max_length}   *)
(* is one token).                                                          *)
(***************************************************************************)
EXTENDS Integers, Sequences, FiniteSets, TLC

VARIABLES
    conf,        \* request.app.state.resource_manager._conf
    sessions,    \* session store: SessionKey -> number of stored configurations
    episodes,    \* memory engine: the set of stored episodes
    nextUid,     \* memory engine: next episode identifier to hand out
    openScopes,  \* memory-engine manager: number of scopes currently open
    started,     \* number of requests accepted so far
    lastDelete,  \* history: the delete by filter that completed just before
    req,         \* per request: its inputs, position and local variables
    installer    \* Installer.install(): its environment, position and local variables

gateway == <<conf, sessions, episodes, nextUid, openScopes, started, lastDelete, req>>

vars == <<conf, sessions, episodes, nextUid, openScopes, started, lastDelete, req, installer>>

----------------------------------------------------------------------------
(* Bounds *)

MaxSeqRequests == 3
MaxEpisodes == 2
MaxMsgs == 2

----------------------------------------------------------------------------
(* Text helpers: str.split, str.strip, "in" *)

Space == " "

\* s[i..] starts with sep
StartsAt(s, sep, i) ==
    /\ i + Len(sep) - 1 <= Len(s)
    /\ \A j \in 1..Len(sep) : s[i + j - 1] = sep[j]

\* str.find: the first index >= 1 where sep occurs in s, 0 when it does not
Find(s, sep) ==
    LET hits == {i \in 1..Len(s) : StartsAt(s, sep, i)}
    IN  IF hits = {} THEN 0 ELSE CHOOSE i \in hits : \A j \in hits : i <= j

\* "sep in s"
Contains(s, sep) == Find(s, sep) # 0

RECURSIVE Split(_, _)
\* s.split(sep): left to right, non-overlapping, every occurrence
Split(s, sep) ==
    LET j == Find(s, sep)
    IN  IF j = 0 THEN <<s>>
        ELSE <<SubSeq(s, 1, j - 1)>> \o Split(SubSeq(s, j + Len(sep), Len(s)), sep)

\* as SplitOnce, at the last occurrence of sep
SplitOnceAtLast(s, sep) ==
    LET j == CHOOSE x \in 1..Len(s) :
                /\ SubSeq(s, x, x + Len(sep) - 1) = sep
                /\ \A y \in (x + 1)..Len(s) : SubSeq(s, y, y + Len(sep) - 1) # sep
    IN  <<SubSeq(s, 1, j - 1), SubSeq(s, j + Len(sep), Len(s))>>

\* s.split(sep, 1) for a string that contains sep
SplitOnce(s, sep) ==
    LET j == Find(s, sep)
    IN  <<SubSeq(s, 1, j - 1), SubSeq(s, j + Len(sep), Len(s))>>

RECURSIVE LStrip(_)
LStrip(s) == IF s # <<>> /\ Head(s) = Space THEN LStrip(Tail(s)) ELSE s

RECURSIVE RStrip(_)
RStrip(s) ==
    IF s # <<>> /\ s[Len(s)] = Space THEN RStrip(SubSeq(s, 1, Len(s) - 1)) ELSE s

\* s.strip()
Strip(s) == RStrip(LStrip(s))

----------------------------------------------------------------------------
(* filter_parser.py *)

\* Python values that can reach parse_filter
PyNone == [tag |-> "none"]
PyStr(s) == [tag |-> "str", v |-> s]
PyInt(n) == [tag |-> "int", v |-> n]
PyList(l) == [tag |-> "list", v |-> l]

\* "not x"
Falsy(x) ==
    \/ x.tag = "none"
    \/ x.tag = "str" /\ x.v = <<>>
    \/ x.tag = "int" /\ x.v = 0
    \/ x.tag = "list" /\ x.v = <<>>

EmptyDict == [k \in {} |-> <<>>]

\* d[k] = v
DictSet(d, k, v) == [x \in DOMAIN d \cup {k} |-> IF x = k THEN v ELSE d[x]]

RECURSIVE ParseConditionsKeepsBare(_, _)
\* as ParseConditions, with a condition without "=" kept as a key of its own
ParseConditionsKeepsBare(conditions, d) ==
    IF conditions = <<>> THEN d
    ELSE LET condition == Head(conditions)
             d2 == IF Contains(condition, <<"=">>)
                   THEN LET kv == SplitOnce(condition, <<"=">>)
                        IN  DictSet(d, Strip(kv[1]), Strip(kv[2]))
                   ELSE DictSet(d, Strip(condition), <<>>)
         IN  ParseConditionsKeepsBare(Tail(conditions), d2)

RECURSIVE ParseConditions(_, _)
\* the for loop of parse_filter over conditions, filter_dict = d
ParseConditions(conditions, d) ==
    IF conditions = <<>> THEN d
    ELSE LET condition == Head(conditions)
             d2 == IF Contains(condition, <<"=">>)
                   THEN LET kv == SplitOnce(condition, <<"=">>)
                        IN  DictSet(d, Strip(kv[1]), Strip(kv[2]))
                   ELSE d
         IN  ParseConditions(Tail(conditions), d2)

\* parse_filter(filter_str): raised = the ValueError of line 28
parse_filter(filter_str) ==
    IF Falsy(filter_str) THEN [raised |-> FALSE, dict |-> EmptyDict]
    ELSE IF filter_str.tag # "str" THEN [raised |-> TRUE, dict |-> EmptyDict]
    ELSE [raised |-> FALSE,
          dict |-> ParseConditions(Split(filter_str.v, <<"a", "n", "d">>), EmptyDict)]

----------------------------------------------------------------------------
(* Configuration: the layers _create_session_if_not_exists reads *)

\* None and "" are both falsy and the code only tests truthiness
NoneStr == ""
NoneTpl == <<>>

\* None where the code does more than test truthiness (line 190: `in`)
NullTpl == <<"None">>

MaxLengthField == "{max_length}"
MaxLengthClause == <<"\n\nMax length: ", MaxLengthField>>

DefaultSystemPrompt == "You are a helpful assistant."
DefaultUserPrompt ==
    <<"Summarize the following episodes:\n", "{episodes}",
      "\n\nPrevious summary:\n", "{summary}">> \o MaxLengthClause

TplWith == <<"Recap ", "{episodes}", " ", "{summary}", " ", MaxLengthField>>
TplWithout == <<"Recap ", "{episodes}", " ", "{summary}">>

NoLongTerm ==
    [present |-> FALSE, embedder |-> NoneStr, reranker |-> NoneStr,
     vector_graph_store |-> NoneStr]
LongTermConfs ==
    {NoLongTerm} \cup
    [present : {TRUE}, embedder : {NoneStr, "emb1"}, reranker : {NoneStr, "rr1"},
     vector_graph_store : {NoneStr, "neo4j"}]

NoShortTerm ==
    [present |-> FALSE, llm_model |-> NoneStr, summary_prompt_system |-> NoneStr,
     summary_prompt_user |-> NoneTpl]
ShortTermConfs ==
    {NoShortTerm} \cup
    [present : {TRUE}, llm_model : {NoneStr, "llm1"},
     summary_prompt_system : {NoneStr, "stm system"},
     summary_prompt_user : {NoneTpl, TplWith, TplWithout}]

NoEpisodic ==
    [present |-> FALSE, long_term_memory |-> NoLongTerm, short_term_memory |-> NoShortTerm]
EpisodicConfs ==
    {NoEpisodic} \cup
    [present : {TRUE}, long_term_memory : LongTermConfs, short_term_memory : ShortTermConfs]

NoPrompt ==
    [present |-> FALSE, episode_summary_system_prompt |-> NoneStr,
     episode_summary_user_prompt |-> NoneTpl]
PromptConfs ==
    {NoPrompt} \cup
    [present : {TRUE}, episode_summary_system_prompt : {NoneStr, "prompt system"},
     episode_summary_user_prompt : {NoneTpl, NullTpl, TplWith, TplWithout}]

NoConf == [present |-> FALSE, episodic_memory |-> NoEpisodic, prompt |-> NoPrompt]
Confs ==
    {NoConf} \cup [present : {TRUE}, episodic_memory : EpisodicConfs, prompt : PromptConfs]

\* the configuration the gateway runs are started with
GatewayConf ==
    [present |-> TRUE,
     episodic_memory |->
        [present |-> TRUE,
         long_term_memory |->
            [present |-> TRUE, embedder |-> "emb1", reranker |-> NoneStr,
             vector_graph_store |-> "neo4j"],
         short_term_memory |->
            [present |-> TRUE, llm_model |-> "llm1", summary_prompt_system |-> NoneStr,
             summary_prompt_user |-> TplWithout]],
     prompt |-> NoPrompt]

----------------------------------------------------------------------------
(* Session provisioning: router.py 99-205 *)

NoSubmit == [via |-> "none"]

\* x or default
Or(x, default) == IF x = NoneStr THEN default ELSE x
OrTpl(x, default) == IF x = NoneTpl THEN default ELSE x

\* _create_new_session: the arguments of session_manager.create_new_session
_create_new_session(via, session_key, description, embedder, reranker, vector_graph_store, llm_model, summary_prompt_system, summary_prompt_user) ==
    [via |-> via,
     session_key |-> session_key,
     description |-> description,
     embedder |-> embedder,
     reranker |-> reranker,
     vector_graph_store |-> Or(vector_graph_store, "default_store"),
     llm_model |-> Or(llm_model, "gpt-4.1"),
     summary_prompt_system |-> Or(summary_prompt_system, DefaultSystemPrompt),
     summary_prompt_user |-> OrTpl(summary_prompt_user, DefaultUserPrompt)]

\* lines 157-193 of _create_session_if_not_exists: the values read from conf
ResolveFromConf(c) ==
    LET em == c.episodic_memory
        hasEm == c.present /\ em.present
        ltm == em.long_term_memory
        hasLtm == hasEm /\ ltm.present
        stm == em.short_term_memory
        hasStm == hasEm /\ stm.present
        sps1 == IF hasStm /\ stm.summary_prompt_system # NoneStr
                THEN stm.summary_prompt_system ELSE NoneStr
        spu1 == IF hasStm /\ stm.summary_prompt_user # NoneTpl
                THEN stm.summary_prompt_user ELSE NoneTpl
        prompt_user == c.prompt.episode_summary_user_prompt
    IN  [embedder |-> IF hasLtm /\ ltm.embedder # NoneStr THEN ltm.embedder ELSE "default",
         reranker |-> IF hasLtm /\ ltm.reranker # NoneStr THEN ltm.reranker ELSE "default",
         vector_graph_store |->
            IF hasLtm /\ ltm.vector_graph_store # NoneStr
            THEN ltm.vector_graph_store ELSE NoneStr,
         llm_model |-> IF hasStm /\ stm.llm_model # NoneStr THEN stm.llm_model ELSE NoneStr,
         summary_prompt_system |->
            IF c.present /\ sps1 = NoneStr /\ c.prompt.present
            THEN c.prompt.episode_summary_system_prompt ELSE sps1,
         summary_prompt_user |->
            IF c.present /\ spu1 = NoneTpl /\ c.prompt.present
            THEN IF ~Contains(prompt_user, <<MaxLengthField>>)
                 THEN prompt_user \o MaxLengthClause
                 ELSE prompt_user
            ELSE spu1]

\* line 190: `"{max_length}" not in prompt_user` raises TypeError when the prompt
\* configuration is read (lines 185-186) and its user prompt is None
ResolveRaises(c) ==
    LET stm == c.episodic_memory.short_term_memory
        hasStm == c.present /\ c.episodic_memory.present /\ stm.present
        spu1 == IF hasStm /\ stm.summary_prompt_user # NoneTpl
                THEN stm.summary_prompt_user ELSE NoneTpl
    IN  /\ c.present
        /\ spu1 = NoneTpl
        /\ c.prompt.present
        /\ c.prompt.episode_summary_user_prompt = NullTpl

\* lines 195-205: the create request of first-use provisioning
FirstUseCreate(session_key, c) ==
    LET v == ResolveFromConf(c)
    IN  _create_new_session("first_use", session_key, "", v.embedder, v.reranker,
                            v.vector_graph_store, v.llm_model,
                            v.summary_prompt_system, v.summary_prompt_user)

\* create_project, lines 214-221: the create request of POST /projects
create_project(session_key, description, embedder, reranker) ==
    _create_new_session("create_project", session_key, description, embedder, reranker,
                        NoneStr, NoneStr, NoneStr, NoneTpl)

----------------------------------------------------------------------------
(* Requests and the external collaborators *)

Reqs == {1, 2}

Orgs == {<<"o">>}
Projects == {<<"p">>, <<"q">>}

\* as SessionKey, without the separator
SessionKeyNoSeparator(org_id, project_id) == org_id \o project_id

\* f"{spec.org_id}/{spec.project_id}"
SessionKey(org_id, project_id) == org_id \o <<"/">> \o project_id

Keys == {SessionKey(o, p) : o \in Orgs, p \in Projects}

EnsureOps == {"add_memories", "search_memories", "list_memories", "get_episodic_memory"}
ScopeOnlyOps == {"delete_memories", "delete_episodic_memory"}
Ops == EnsureOps \cup ScopeOnlyOps
          \cup {"create_project", "delete_project", "delete_semantic_memory"}

\* does the handler of op call _create_session_if_not_exists before it opens the scope
CallsEnsureSession(op) == op \in EnsureOps

Terminal == {"done", "failed", "cancelled"}
Awaiting == {"lookup", "creating", "delete_session", "acquire", "body", "deleting"}

NoScope == [key |-> <<>>, by |-> 0]
Unset == [tag |-> "unset"]
NoResult == [tag |-> "noresult"]
NoDelete == [key |-> <<>>, filter |-> Unset]
NoBody == [json |-> TRUE, fields |-> {"none"}]

IdleReq ==
    [op |-> "none", org_id |-> <<>>, project_id |-> <<>>, body |-> NoBody,
     messages |-> <<>>, detail |-> {},
     key |-> <<>>, pc |-> "idle", exit |-> "", err |-> "",
     lookup |-> "", create |-> NoSubmit, ensured |-> FALSE, provisioned |-> FALSE,
     acquires |-> 0, scope |-> NoScope, n |-> 0, i |-> 0,
     filter |-> Unset, types |-> Unset, episodic_id |-> 0, found |-> <<>>,
     calls |-> <<>>, wrote |-> FALSE, result |-> NoResult]

\* s.replace(old, new)
RECURSIVE Replace(_, _, _)
Replace(s, old, new) ==
    LET j == Find(s, old)
    IN  IF j = 0 THEN s
        ELSE SubSeq(s, 1, j - 1) \o new
                \o Replace(SubSeq(s, j + Len(old), Len(s)), old, new)

Digits == <<"0", "1", "2", "3", "4", "5", "6", "7", "8", "9">>

IsDigit(c) == \E d \in 1..10 : Digits[d] = c

DigitVal(c) == (CHOOSE d \in 1..10 : Digits[d] = c) - 1

\* int(s) for a string of digits
RECURSIVE Num(_)
Num(s) ==
    IF s = <<>> THEN 0
    ELSE 10 * Num(SubSeq(s, 1, Len(s) - 1)) + DigitVal(s[Len(s)])

\* s[a..b] is a number of lo..hi written in digits
NumField(s, a, b, lo, hi) ==
    /\ b <= Len(s)
    /\ \A j \in a..b : IsDigit(s[j])
    /\ Num(SubSeq(s, a, b)) \in lo..hi

\* YYYY-MM-DD
IsDate(s) ==
    /\ Len(s) = 10
    /\ s[5] = "-" /\ s[8] = "-"
    /\ NumField(s, 1, 4, 1, 9999)
    /\ NumField(s, 6, 7, 1, 12)
    /\ NumField(s, 9, 10, 1, 31)

\* hh:mm:ss
IsTime(s) ==
    /\ Len(s) = 8
    /\ s[3] = ":" /\ s[6] = ":"
    /\ NumField(s, 1, 2, 0, 23)
    /\ NumField(s, 4, 5, 0, 59)
    /\ NumField(s, 7, 8, 0, 59)

\* +hh:mm or -hh:mm
IsOffset(s) ==
    /\ Len(s) = 6
    /\ s[1] \in {"+", "-"}
    /\ s[4] = ":"
    /\ NumField(s, 2, 3, 0, 23)
    /\ NumField(s, 5, 6, 0, 59)

\* the value raised in place of a datetime
NoDatetime == [tag |-> "none"]

\* datetime.fromisoformat(s) for the forms YYYY-MM-DD, YYYY-MM-DDThh:mm:ss and
\* YYYY-MM-DDThh:mm:ss+hh:mm; raised = ValueError.  tz is <<>> for a naive
\* datetime and <<minutes east of UTC>> for an aware one.
fromisoformat(s) ==
    LET n == Len(s)
        date == SubSeq(s, 1, 10)
        time == SubSeq(s, 12, 19)
        offset == SubSeq(s, 20, 25)
        ok == /\ n \in {10, 19, 25}
              /\ IsDate(date)
              /\ n >= 19 => IsTime(time)
              /\ n = 25 => IsOffset(offset)
    IN  IF ~ok THEN [raised |-> TRUE, value |-> NoDatetime]
        ELSE [raised |-> FALSE,
              value |->
                 [tag |-> "datetime",
                  date |-> <<Num(SubSeq(date, 1, 4)), Num(SubSeq(date, 6, 7)),
                             Num(SubSeq(date, 9, 10))>>,
                  time |-> IF n = 10 THEN <<0, 0, 0>>
                           ELSE <<Num(SubSeq(time, 1, 2)), Num(SubSeq(time, 4, 5)),
                                  Num(SubSeq(time, 7, 8))>>,
                  tz |-> IF n < 25 THEN <<>>
                         ELSE <<(IF offset[1] = "-" THEN -1 ELSE 1)
                                   * (60 * Num(SubSeq(offset, 2, 3))
                                         + Num(SubSeq(offset, 5, 6)))>>]]

\* datetime.utcnow(): the reading of the clock is not modelled
utcnow == [tag |-> "now"]

\* as CreatedAt, without the try / except: the string is passed on as it is
CreatedAtKeepsString(timestamp) == timestamp

\* created_at of a message, lines 260-266
CreatedAt(timestamp) ==
    IF timestamp.tag = "str"
    THEN LET parsed == fromisoformat(Replace(timestamp.v, <<"Z">>,
                                             <<"+", "0", "0", ":", "0", "0">>))
         IN  IF parsed.raised THEN utcnow ELSE parsed.value
    ELSE timestamp

\* message.timestamp: "2024-01-02T03:04:05Z", and text that is no timestamp
IsoTimestamp == PyStr(<<"2", "0", "2", "4", "-", "0", "1", "-", "0", "2", "T", "0", "3", ":", "0", "4", ":", "0", "5", "Z">>)
BadTimestamp == PyStr(<<"s", "o", "o", "n">>)

\* filterable metadata of a message
Meta1 == DictSet(EmptyDict, <<"k">>, <<"1">>)
Meta2 == DictSet(EmptyDict, <<"k">>, <<"2">>)
Metas == {Meta1, Meta2}

\* message.content
Content1 == <<"c", "1">>
Content2 == <<"c", "2">>

\* the messages of an AddMemoriesSpec
Msgs == {[content |-> Content1, metadata |-> Meta1, timestamp |-> IsoTimestamp],
         [content |-> Content2, metadata |-> Meta2, timestamp |-> BadTimestamp]}

\* the other message of Msgs
Other(m) == CHOOSE x \in Msgs : x # m

\* spec.messages: the empty list, or a list that starts with either message and
\* alternates the two
MessageLists ==
    {<<>>} \cup
    {[j \in 1..n |-> IF j % 2 = 1 THEN m ELSE Other(m)] : m \in Msgs, n \in 1..MaxMsgs}

\* spec.query of a SearchMemoriesSpec
QueryInputs == {Content1}

FilterInputs ==
    {PyNone,
     PyStr(<<"k", "=", "1">>),
     PyStr(<<"z">>),
     PyStr(<<"k", "=", "1", " ", "a", "n", "d", " ", "z">>)}

TypesInputs ==
    {PyNone, PyList(<<>>), PyList(<<"episodic">>), PyList(<<"semantic">>),
     PyList(<<"episodic", "semantic">>), PyList(<<"other">>)}

\* x in l, for a list l
InList(x, l) == \E j \in 1..Len(l) : l[j] = x

(* Session store (SessionDataManager).  get_session_info raises when the    *)
(* session is not stored or the store cannot be reached.                    *)
LookupOutcomes(k) ==
    (IF sessions[k] # <<>> THEN {"found"} ELSE {"notfound"}) \cup {"error"}

\* create_new_session at the store: create-or-ignore
StoreCreate(s, k, c) == IF s[k] = <<>> THEN [s EXCEPT ![k] = <<c>>] ELSE s

\* delete_session at the store
StoreDelete(s, k) == [s EXCEPT ![k] = <<>>]

(* Memory engine (EpisodicMemory), reached through a scope for one key *)
RECURSIVE ByUid(_)
ByUid(S) ==
    IF S = {} THEN <<>>
    ELSE LET m == CHOOSE e \in S : \A f \in S : e.uid <= f.uid
         IN  <<m>> \o ByUid(S \ {m})

\* the identifier of an episode the engine has not persisted yet
NoneUid == 0

Matches(ep, k, query, d) ==
    /\ ep.session_key = k
    /\ query = <<>> \/ ep.content = query
    /\ \A x \in DOMAIN d : x \in DOMAIN ep.meta /\ ep.meta[x] = d[x]

\* query_memory(query, property_filter) -> (short_term, long_term, summary):
\* episodes not persisted yet are held in short-term memory only
QueryMemory(k, query, d) ==
    [short_term |-> ByUid({ep \in episodes : Matches(ep, k, query, d) /\ ep.uid = NoneUid}),
     long_term |-> ByUid({ep \in episodes : Matches(ep, k, query, d) /\ ep.uid # NoneUid})]

\* delete_episodes(episode_ids) on the scope of k
DeleteEpisodes(k, ids) ==
    {ep \in episodes : ~(ep.session_key = k /\ InList(ep.uid, ids))}

\* an engine call made through the handle h
Call(kind, h, query, d, ids) ==
    [kind |-> kind, handle |-> h, query |-> query, filter |-> d, ids |-> ids]

----------------------------------------------------------------------------
(* The steps of a request.  A step runs from one await to the next.        *)

\* as _session_exists, with an except clause that catches the not-found error only
SessionExistsNarrowExcept(outcome) ==
    IF outcome = "found" THEN "true"
    ELSE IF outcome = "notfound" THEN "false"
    ELSE "raise"

\* _session_exists: the outcome of get_session_info -> the value returned
_session_exists(outcome) == IF outcome = "found" THEN "true" ELSE "false"

\* as ExitScope, with the release skipped when the block is left by an error
ExitScopeLeaksOnError(q, exit, err) ==
    IF exit = "failed" THEN [q EXCEPT !.pc = "failed", !.err = err]
    ELSE [q EXCEPT !.pc = "release", !.exit = exit, !.err = err]

\* the `async with` block is left: __aexit__ runs before the request ends
ExitScope(q, exit, err) == [q EXCEPT !.pc = "release", !.exit = exit, !.err = err]

\* _create_session_if_not_exists has returned to the handler
AfterEnsure(q) ==
    IF q.op = "get_episodic_memory"
    THEN [q EXCEPT !.ensured = TRUE, !.pc = "failed", !.err = "HTTP 501"]
    ELSE [q EXCEPT !.ensured = TRUE, !.pc = "acquire"]

\* as ResolveFailed, with the error swallowed and the handler going on
ResolveFailedContinues(q) == AfterEnsure([q EXCEPT !.err = "SessionProvisioningError"])

\* an exception raised in lines 157-193 leaves _create_session_if_not_exists and
\* the handler: nothing catches it
ResolveFailed(q) == [q EXCEPT !.pc = "failed", !.err = "SessionProvisioningError"]

\* as AfterLookup, with a lock per key: while another request is creating the
\* session of the key, no second create request is issued
AfterLookupPerKeyLock(q, outcome) ==
    LET e == _session_exists(outcome)
        q1 == [q EXCEPT !.lookup = outcome]
        busy == \E r2 \in Reqs :
                   req[r2] # q /\ req[r2].key = q.key /\ req[r2].pc = "creating"
    IN  IF e = "raise" THEN [q1 EXCEPT !.pc = "failed", !.err = "lookup"]
        ELSE IF e = "false" /\ ~busy
        THEN IF ResolveRaises(conf) THEN ResolveFailed(q1)
             ELSE [q1 EXCEPT !.create = FirstUseCreate(q.key, conf), !.pc = "creating"]
        ELSE AfterEnsure(q1)

\* as AfterLookup, with the test of line 156 inverted
AfterLookupInverted(q, outcome) ==
    LET e == _session_exists(outcome)
        q1 == [q EXCEPT !.lookup = outcome]
    IN  IF e = "raise" THEN [q1 EXCEPT !.pc = "failed", !.err = "lookup"]
        ELSE IF e = "true"
        THEN IF ResolveRaises(conf) THEN ResolveFailed(q1)
             ELSE [q1 EXCEPT !.create = FirstUseCreate(q.key, conf), !.pc = "creating"]
        ELSE AfterEnsure(q1)

\* line 156 and, when the session is taken as absent, lines 157-205 up to the
\* await of create_new_session
AfterLookup(q, outcome) ==
    LET e == _session_exists(outcome)
        q1 == [q EXCEPT !.lookup = outcome]
    IN  IF e = "raise" THEN [q1 EXCEPT !.pc = "failed", !.err = "lookup"]
        ELSE IF e = "false"
        THEN IF ResolveRaises(conf) THEN ResolveFailed(q1)
             ELSE [q1 EXCEPT !.create = FirstUseCreate(q.key, conf), !.pc = "creating"]
        ELSE AfterEnsure(q1)

\* spec.config.embedder and spec.config.reranker of a POST /projects request
RequestEmbedder == "emb_req"
RequestReranker == "rr_req"

\* as Begin, with delete_semantic_memory opening a scope like the other deletes
BeginSemanticDeleteOpensScope(op, k) ==
    LET q == [IdleReq EXCEPT !.op = op, !.key = k]
    IN  IF op = "create_project"
        THEN [q EXCEPT !.create = create_project(k, "d", RequestEmbedder, RequestReranker),
                       !.pc = "creating"]
        ELSE IF op = "delete_project" THEN [q EXCEPT !.pc = "delete_session"]
        ELSE IF CallsEnsureSession(op) THEN [q EXCEPT !.pc = "lookup"]
        ELSE [q EXCEPT !.pc = "acquire"]

\* the handler up to its first await
Begin(op, k) ==
    LET q == [IdleReq EXCEPT !.op = op, !.key = k]
    IN  IF op = "delete_semantic_memory" THEN [q EXCEPT !.key = <<>>, !.pc = "done"]
        ELSE IF op = "create_project"
        THEN [q EXCEPT !.create = create_project(k, "d", RequestEmbedder, RequestReranker),
                       !.pc = "creating"]
        ELSE IF op = "delete_project" THEN [q EXCEPT !.pc = "delete_session"]
        ELSE IF CallsEnsureSession(op) THEN [q EXCEPT !.pc = "lookup"]
        ELSE [q EXCEPT !.pc = "acquire"]

\* the fields SessionInfo requires
RequiredFields == {"org_id", "project_id"}

\* the request bodies of the accessor: text that is not JSON, and JSON objects
\* with any of the required fields
Bodies == [json : {FALSE}, fields : {{}}] \cup [json : {TRUE}, fields : SUBSET RequiredFields]

\* as get_session_info, with the two except clauses in the other order
GetSessionInfoBroadExceptFirst(body) ==
    IF ~body.json \/ RequiredFields \ body.fields # {}
    THEN [status |-> 400, detail |-> {"Invalid JSON body"}]
    ELSE [status |-> 200, detail |-> {}]

\* get_session_info, lines 36-44: request.json() raises on text that is not
\* JSON (400), model_validate raises ValidationError on a missing field (422,
\* detail = e.errors())
get_session_info(body) ==
    IF ~body.json THEN [status |-> 400, detail |-> {"Invalid JSON body"}]
    ELSE IF RequiredFields \ body.fields # {}
    THEN [status |-> 422, detail |-> RequiredFields \ body.fields]
    ELSE [status |-> 200, detail |-> {}]

\* Depends(get_session_info): the accessor runs only with a decoded body
Decoded(q, body) ==
    LET s == get_session_info(body)
        q1 == [q EXCEPT !.body = body]
    IN  IF s.status = 200 THEN q1
        ELSE [q1 EXCEPT !.key = <<>>, !.pc = "failed",
                        !.err = IF s.status = 422 THEN "HTTP 422" ELSE "HTTP 400",
                        !.detail = s.detail]

\* a request with org_id and project_id drawn from the given sets arrives and
\* its handler runs up to its first await
StartWith(r, OrgIds, ProjectIds) ==
    /\ \E op \in Ops, org \in OrgIds, prj \in ProjectIds, body \in Bodies :
          /\ op # "get_episodic_memory" => body = [json |-> TRUE, fields |-> RequiredFields]
          /\ LET q == [Begin(op, SessionKey(org, prj))
                          EXCEPT !.org_id = org, !.project_id = prj]
             IN  req' = [req EXCEPT ![r] =
                            IF op = "get_episodic_memory" THEN Decoded(q, body) ELSE q]
    /\ started' = started + 1
    /\ lastDelete' = IF req'[r].op = "delete_memories" THEN lastDelete ELSE NoDelete
    /\ UNCHANGED <<conf, installer, sessions, episodes, nextUid, openScopes>>

\* a request arrives and its handler runs up to its first await
Start(r) == StartWith(r, Orgs, Projects)

SessionLookup(r) ==
    /\ req[r].pc = "lookup"
    /\ \E outcome \in LookupOutcomes(req[r].key) :
          req' = [req EXCEPT ![r] = AfterLookup(req[r], outcome)]
    /\ UNCHANGED <<conf, installer, sessions, episodes, nextUid, openScopes, started, lastDelete>>

\* as CreateFailed, with the error swallowed and the handler going on
CreateFailedContinues(q) ==
    IF q.op = "create_project"
    THEN [q EXCEPT !.pc = "done", !.err = "SessionProvisioningError"]
    ELSE AfterEnsure([q EXCEPT !.err = "SessionProvisioningError"])

\* create_new_session raised: the exception leaves _create_new_session, its
\* caller and the handler
CreateFailed(q) == [q EXCEPT !.pc = "failed", !.err = "SessionProvisioningError"]

\* create_new_session returns (or raises) at the await of line 124
CreateReturn(r) ==
    /\ req[r].pc = "creating"
    /\ \E ok \in BOOLEAN :
          LET q == req[r]
          IN  IF ok
              THEN /\ sessions' = StoreCreate(sessions, q.key, q.create)
                   /\ LET q1 == [q EXCEPT !.provisioned = (sessions[q.key] = <<>>)]
                      IN  req' = [req EXCEPT ![r] =
                                     IF q.op = "create_project"
                                     THEN [q1 EXCEPT !.pc = "done"]
                                     ELSE AfterEnsure(q1)]
              ELSE /\ sessions' = sessions
                   /\ req' = [req EXCEPT ![r] = CreateFailed(q)]
    /\ UNCHANGED <<conf, installer, episodes, nextUid, openScopes, started, lastDelete>>

\* delete_project, line 231
DeleteSession(r) ==
    /\ req[r].pc = "delete_session"
    /\ \E ok \in BOOLEAN :
          IF ok
          THEN /\ sessions' = StoreDelete(sessions, req[r].key)
               /\ req' = [req EXCEPT ![r].pc = "done"]
          ELSE /\ sessions' = sessions
               /\ req' = [req EXCEPT ![r].pc = "failed", ![r].err = "delete_session"]
    /\ UNCHANGED <<conf, installer, episodes, nextUid, openScopes, started, lastDelete>>

\* as EmptyAggregate, with the semantic partition left out
EmptyAggregateNoSemantic == [episodic_memory |-> <<>>]

\* SearchResult(content={"episodic_memory": [], "semantic_memory": []})
EmptyAggregate == [episodic_memory |-> <<>>, semantic_memory |-> <<>>]

\* as EnterBody, with list_memories querying the engine for the session
EnterBodyListQueries(q) ==
    IF q.op = "list_memories"
    THEN ExitScope([q EXCEPT !.calls = Append(@, Call("query", q.scope, <<>>,
                                                      EmptyDict, <<>>)),
                             !.result = [EmptyAggregate EXCEPT !.episodic_memory =
                                            QueryMemory(q.key, <<>>, EmptyDict)]],
                   "done", "")
    ELSE IF q.op = "add_memories" /\ q.n = 0 THEN ExitScope(q, "done", "")
    ELSE [q EXCEPT !.pc = "body"]

\* the body of the `async with` up to its first await
EnterBody(q) ==
    IF q.op = "list_memories"
    THEN ExitScope([q EXCEPT !.result = EmptyAggregate], "done", "")
    ELSE IF q.op = "add_memories" /\ q.n = 0 THEN ExitScope(q, "done", "")
    ELSE [q EXCEPT !.pc = "body"]

\* as AcquireFailed, with the body of the block entered all the same
AcquireFailedRunsBody(q) ==
    EnterBody([q EXCEPT !.acquires = @ + 1, !.err = "MemoryEngineUnavailable"])

\* open_episodic_memory(session_key) raised in __aenter__: the block is not
\* entered and spec.messages is never read
AcquireFailed(q) ==
    [q EXCEPT !.acquires = @ + 1, !.pc = "failed", !.err = "MemoryEngineUnavailable",
              !.messages = <<>>, !.n = 0]

\* as OpenScope, with the handle another request holds for the key handed out
\* again while it is open
OpenScopeCached(r) ==
    LET held == {r2 \in Reqs \ {r} :
                    req[r2].scope # NoScope /\ req[r2].scope.key = req[r].key}
    IN  IF held = {} THEN [key |-> req[r].key, by |-> r]
        ELSE req[CHOOSE r2 \in held : TRUE].scope

\* as OpenScope, with the scope keyed by the organisation alone: every project
\* of an organisation gets the scope of its first project
OpenScopePerOrg(r) == [key |-> SessionKey(req[r].org_id, <<"p">>), by |-> r]

\* `as episodic_memory`: the handle the acquisition of request r yields
OpenScope(r) == [key |-> req[r].key, by |-> r]

\* async with episodic_memory_manager.open_episodic_memory(session_key=session_key);
\* spec.messages is fixed where the block first reads it
Acquire(r) ==
    /\ req[r].pc = "acquire"
    /\ \E ok \in BOOLEAN,
          msgs \in IF req[r].op = "add_memories" THEN MessageLists ELSE {<<>>} :
          LET q == [req[r] EXCEPT !.messages = msgs, !.n = Len(msgs)]
          IN  IF ok
              THEN /\ openScopes' = openScopes + 1
                   /\ req' = [req EXCEPT ![r] =
                                 EnterBody([q EXCEPT !.acquires = @ + 1,
                                                     !.scope = OpenScope(r)])]
              ELSE /\ openScopes' = openScopes
                   /\ req' = [req EXCEPT ![r] = AcquireFailed(q)]
    /\ UNCHANGED <<conf, installer, sessions, episodes, nextUid, started, lastDelete>>

\* the handler has returned or raised: its local variables are gone
Returned(q) ==
    [q EXCEPT !.pc = q.exit, !.scope = NoScope, !.messages = <<>>, !.n = 0, !.i = 0,
              !.filter = Unset, !.types = Unset, !.episodic_id = NoneUid,
              !.found = <<>>, !.calls = <<>>,
              !.result = NoResult]

\* __aexit__ of the scope, then the request ends as the block was left
Release(r) ==
    /\ req[r].pc = "release"
    /\ openScopes' = openScopes - 1
    /\ req' = [req EXCEPT ![r] = Returned(req[r])]
    /\ UNCHANGED <<conf, installer, sessions, episodes, nextUid, started, lastDelete>>

\* the request is cancelled while it waits: CancelledError at the await
Cancel(r) ==
    /\ req[r].pc \in Awaiting
    /\ req' = [req EXCEPT ![r] =
                  IF req[r].scope # NoScope
                  THEN ExitScope(req[r], "cancelled", "CancelledError")
                  ELSE [req[r] EXCEPT !.pc = "cancelled", !.err = "CancelledError"]]
    /\ UNCHANGED <<conf, installer, sessions, episodes, nextUid, openScopes, started, lastDelete>>

----------------------------------------------------------------------------
(* The operation-specific work inside the scope *)

\* as MemoryTypes, with the requested types ignored
MemoryTypesIgnoresRequest(types) == <<"episodic", "semantic">>

\* as MemoryTypes, without the default for absent or empty types
MemoryTypesNoDefault(types) == IF Falsy(types) THEN <<>> ELSE types.v

\* spec.types if spec.types else ["episodic", "semantic"]
MemoryTypes(types) == IF Falsy(types) THEN <<"episodic", "semantic">> ELSE types.v

\* as AddFailed, with the error swallowed and the loop going on
AddFailedSkipsMessage(q, c) ==
    LET q1 == [q EXCEPT !.i = @ + 1, !.calls = Append(@, c)]
    IN  IF q1.i = q1.n THEN ExitScope(q1, "done", "") ELSE q1

\* add_memory_episode raised: the exception leaves the loop and the block
AddFailed(q, c) ==
    ExitScope([q EXCEPT !.calls = Append(@, c)], "failed", "add_memory_episode")

\* add_memories, lines 258-280: the next message of spec.messages is submitted
AddEpisode(r) ==
    /\ req[r].pc = "body"
    /\ req[r].op = "add_memories"
    /\ \E ok \in BOOLEAN, persisted \in BOOLEAN :
          LET q == req[r]
              message == q.messages[q.i + 1]
              c == Call("add", q.scope, <<>>, message.metadata, <<>>)
              uid == IF persisted THEN nextUid ELSE NoneUid
          IN  IF ok
              THEN /\ nextUid <= MaxEpisodes
                   /\ Cardinality(episodes) < MaxEpisodes
                   /\ episodes' = episodes \cup
                         {[uid |-> uid, session_key |-> q.key,
                           content |-> message.content,
                           created_at |-> CreatedAt(message.timestamp),
                           meta |-> message.metadata]}
                   /\ nextUid' = IF persisted THEN nextUid + 1 ELSE nextUid
                   /\ lastDelete' = IF lastDelete.key = q.key THEN NoDelete
                                     ELSE lastDelete
                   /\ LET q1 == [q EXCEPT !.i = @ + 1, !.calls = Append(@, c),
                                          !.wrote = TRUE]
                      IN  req' = [req EXCEPT ![r] =
                                     IF q1.i = q1.n THEN ExitScope(q1, "done", "")
                                     ELSE q1]
              ELSE /\ UNCHANGED <<episodes, nextUid, lastDelete>>
                   /\ req' = [req EXCEPT ![r] = AddFailed(q, c)]
    /\ UNCHANGED <<conf, installer, sessions, openScopes, started>>

\* search_memories, lines 307-320
SearchOutcome(q, types, query, filter, ok) ==
    LET q1 == [q EXCEPT !.types = types, !.filter = filter]
        pf == parse_filter(filter)
    IN  IF InList("episodic", MemoryTypes(types))
        THEN IF pf.raised THEN ExitScope(q1, "failed", "InvalidFilterFormat")
             ELSE LET q2 == [q1 EXCEPT !.calls =
                                Append(@, Call("query", q.scope, query, pf.dict, <<>>))]
                  IN  IF ok
                      THEN ExitScope([q2 EXCEPT !.result =
                                         [EmptyAggregate EXCEPT !.episodic_memory =
                                             QueryMemory(q.scope.key, query, pf.dict)]],
                                     "done", "")
                      ELSE ExitScope(q2, "failed", "query_memory")
        ELSE ExitScope([q1 EXCEPT !.result = EmptyAggregate], "done", "")

\* search_memories with spec.types drawn from Types and spec.filter from Filters
SearchOf(r, Types, Filters) ==
    /\ req[r].pc = "body"
    /\ req[r].op = "search_memories"
    /\ \E types \in Types, query \in QueryInputs, filter \in Filters,
          ok \in BOOLEAN :
          req' = [req EXCEPT ![r] = SearchOutcome(req[r], types, query, filter, ok)]
    /\ UNCHANGED <<conf, installer, sessions, episodes, nextUid, openScopes, started, lastDelete>>

\* search_memories with spec.filter drawn from Filters
SearchWith(r, Filters) == SearchOf(r, TypesInputs, Filters)

Search(r) == SearchWith(r, FilterInputs)

\* as EpisodeIds, without the test for None
EpisodeIdsKeepsNone(res) ==
    LET all == res.short_term \o res.long_term
    IN  [j \in 1..Len(all) |-> all[j].uid]

\* as EpisodeIds, with the first identifier only
EpisodeIdsFirstOnly(res) ==
    LET all == res.short_term \o res.long_term
        kept == SelectSeq(all, LAMBDA ep : ep.uid # NoneUid)
    IN  IF kept = <<>> THEN <<>> ELSE <<kept[1].uid>>

\* [ep.uid for ep in short_term + long_term if ep.uid is not None]
EpisodeIds(res) ==
    LET all == res.short_term \o res.long_term
        kept == SelectSeq(all, LAMBDA ep : ep.uid # NoneUid)
    IN  [j \in 1..Len(kept) |-> kept[j].uid]

\* delete_memories, lines 366-369
DeleteQueryOutcome(q, filter, ok) ==
    LET q1 == [q EXCEPT !.filter = filter]
        pf == parse_filter(filter)
    IN  IF pf.raised THEN ExitScope(q1, "failed", "InvalidFilterFormat")
        ELSE LET q2 == [q1 EXCEPT !.calls =
                           Append(@, Call("query", q.scope, <<>>, pf.dict, <<>>))]
             IN  IF ok
                 THEN [q2 EXCEPT !.found =
                                    EpisodeIds(QueryMemory(q.scope.key, <<>>, pf.dict)),
                                 !.pc = "deleting"]
                 ELSE ExitScope(q2, "failed", "query_memory")

\* delete_memories with spec.filter drawn from Filters
DeleteQueryWith(r, Filters) ==
    /\ req[r].pc = "body"
    /\ req[r].op = "delete_memories"
    /\ \E filter \in Filters, ok \in BOOLEAN :
          req' = [req EXCEPT ![r] = DeleteQueryOutcome(req[r], filter, ok)]
    /\ UNCHANGED <<conf, installer, sessions, episodes, nextUid, openScopes, started, lastDelete>>

DeleteQuery(r) == DeleteQueryWith(r, FilterInputs)

\* delete_episodes(episode_ids=ids) on the scope the request q0 holds
DeleteCall(r, q0, ids) ==
    \E ok \in BOOLEAN :
       LET q == [q0 EXCEPT !.found = ids,
                           !.calls = Append(@, Call("delete", q0.scope, <<>>,
                                                    EmptyDict, ids))]
       IN  IF ok
           THEN /\ episodes' = DeleteEpisodes(q.scope.key, ids)
                /\ lastDelete' = IF q.op = "delete_memories"
                                  THEN [key |-> q.key, filter |-> q.filter]
                                  ELSE lastDelete
                /\ req' = [req EXCEPT ![r] =
                              ExitScope([q EXCEPT !.wrote = (@ \/ episodes' # episodes)],
                                        "done", "")]
           ELSE /\ UNCHANGED <<episodes, lastDelete>>
                /\ req' = [req EXCEPT ![r] = ExitScope(q, "failed", "delete_episodes")]

\* delete_memories, lines 370-372
DeleteFound(r) ==
    /\ req[r].pc = "deleting"
    /\ DeleteCall(r, req[r], req[r].found)
    /\ UNCHANGED <<conf, installer, sessions, nextUid, openScopes, started>>

\* as IdList, with every identifier up to the given one
IdListUpTo(episodic_id) == [j \in 1..episodic_id |-> j]

\* [spec.episodic_id]
IdList(episodic_id) == <<episodic_id>>

\* delete_episodic_memory, line 391
DeleteById(r) ==
    /\ req[r].pc = "body"
    /\ req[r].op = "delete_episodic_memory"
    /\ \E episodic_id \in 1..MaxEpisodes :
          DeleteCall(r, [req[r] EXCEPT !.episodic_id = episodic_id], IdList(episodic_id))
    /\ UNCHANGED <<conf, installer, sessions, nextUid, openScopes, started>>

----------------------------------------------------------------------------
(* memmachine_configure.py: Installer.install()                             *)

\* the Installer subclasses
Platforms == {"Windows", "Macos", "Linux"}

\* get_run_script_type()
get_run_script_type(platform) == IF platform = "Windows" THEN "powershell" ELSE "bash"

UpperCase == <<"Y", "N", "E", "S">>
LowerCase == <<"y", "n", "e", "s">>

\* str.lower()
Lower(s) ==
    [j \in 1..Len(s) |->
        IF \E u \in 1..Len(UpperCase) : UpperCase[u] = s[j]
        THEN LowerCase[CHOOSE u \in 1..Len(UpperCase) : UpperCase[u] = s[j]]
        ELSE s[j]]

\* what the user types at "Do you want to install and start Neo4j? (y/n): "
ChoiceInputs ==
    {<<"y">>, <<"Y">>, <<Space, "y", Space>>, <<"Y", Space>>,
     <<"n">>, <<"N">>, <<>>, <<"y", "e", "s">>}

\* WINDOWS_DEFAULT_NEO4J_INSTALL_DIR
DefaultInstallDir == <<"C", ":">>

\* what the user types at "Enter Neo4j installation directory"
DirInputs == {<<>>, <<Space>>, <<"D", ":">>}

Unbound == "unbound"

NoWizardArgs == [tag |-> "none"]

IdleInstaller ==
    [platform |-> "none", running |-> FALSE, pc |-> "idle", asked |-> FALSE,
     answer |-> <<>>, choice |-> <<>>, neo4j_started_by_installer |-> Unbound,
     install_dir |-> <<>>, installed |-> FALSE, wizard_args |-> NoWizardArgs,
     wizard_ran |-> FALSE, err |-> ""]

\* install() is called on an installer of some platform, with Neo4j running or not
InstallerStates ==
    {[IdleInstaller EXCEPT !.platform = p, !.running = b, !.pc = "check",
                           !.install_dir = IF p = "Windows" THEN DefaultInstallDir
                                           ELSE <<>>] :
        p \in Platforms, b \in BOOLEAN}

\* line 49: if not self.check_neo4j_running()
CheckNeo4jRunning ==
    /\ installer.pc = "check"
    /\ installer' = [installer EXCEPT !.pc = IF installer.running THEN "wizard_args"
                                             ELSE "ask"]
    /\ UNCHANGED gateway

\* lines 50-60: input(...).strip().lower(), and the exception for any answer but y
AskInstall ==
    /\ installer.pc = "ask"
    /\ \E answer \in ChoiceInputs :
          LET choice == Lower(Strip(answer))
              i == [installer EXCEPT !.asked = TRUE, !.answer = answer,
                                     !.choice = choice]
          IN  installer' = IF choice # <<"y">>
                           THEN [i EXCEPT !.pc = "failed", !.err = "Exception"]
                           ELSE [i EXCEPT !.pc = "install"]
    /\ UNCHANGED gateway

\* WindowsInstaller.ask_install_dir
ask_install_dir(current, typed) ==
    IF Strip(typed) # <<>> THEN Strip(typed) ELSE current

\* lines 61-62: self.install_and_start_neo4j(); neo4j_started_by_installer = True
InstallAndStartNeo4j ==
    /\ installer.pc = "install"
    /\ \E ok \in BOOLEAN, typed \in DirInputs :
          /\ installer.platform # "Windows" => typed = <<>>
          /\ LET dir == IF installer.platform = "Windows"
                        THEN ask_install_dir(installer.install_dir, typed)
                        ELSE installer.install_dir
                 i == [installer EXCEPT !.install_dir = dir]
             IN  installer' =
                    IF ok
                    THEN [i EXCEPT !.installed = TRUE,
                                   !.neo4j_started_by_installer = "True",
                                   !.pc = "wizard_args"]
                    ELSE [i EXCEPT !.pc = "failed", !.err = "install_and_start_neo4j"]
    /\ UNCHANGED gateway

\* lines 66-82: ConfigurationWizardArgs(neo4j_provided=neo4j_started_by_installer, ...);
\* reading a local variable that was never assigned raises UnboundLocalError
BuildWizardArgs ==
    /\ installer.pc = "wizard_args"
    /\ installer' =
          IF installer.neo4j_started_by_installer = Unbound
          THEN [installer EXCEPT !.pc = "failed", !.err = "UnboundLocalError"]
          ELSE [installer EXCEPT
                   !.wizard_args =
                      [tag |-> "args",
                       neo4j_provided |-> installer.neo4j_started_by_installer,
                       run_script_type |-> get_run_script_type(installer.platform)],
                   !.pc = "wizard"]
    /\ UNCHANGED gateway

\* lines 83-87: ConfigurationWizard(wizard_args, ...).run_wizard()
RunWizard ==
    /\ installer.pc = "wizard"
    /\ \E ok \in BOOLEAN :
          installer' = [installer EXCEPT !.wizard_ran = TRUE,
                                         !.pc = IF ok THEN "done" ELSE "failed",
                                         !.err = IF ok THEN "" ELSE "run_wizard"]
    /\ UNCHANGED gateway

----------------------------------------------------------------------------
(* The gateway under concurrent requests: every request of Reqs arrives at  *)
(* most once, at any time                                                  *)

Init ==
    /\ conf = GatewayConf
    /\ sessions = [k \in Keys |-> <<>>]
    /\ episodes = {}
    /\ nextUid = 1
    /\ openScopes = 0
    /\ started = 0
    /\ lastDelete = NoDelete
    /\ req = [r \in Reqs |-> IdleReq]
    /\ installer = IdleInstaller

\* spec.types and spec.filter of the concurrent requests: both partitions or
\* the semantic one alone, no filter or k=1
ConcurrentTypes == {PyNone, PyList(<<"semantic">>)}
ConcurrentFilters == {PyNone, PyStr(<<"k", "=", "1">>)}

Next ==
    \E r \in Reqs :
       \/ req[r].pc = "idle" /\ Start(r)
       \/ SessionLookup(r)
       \/ CreateReturn(r)
       \/ DeleteSession(r)
       \/ Acquire(r)
       \/ AddEpisode(r)
       \/ SearchOf(r, ConcurrentTypes, ConcurrentFilters)
       \/ DeleteQueryWith(r, ConcurrentFilters)
       \/ DeleteFound(r)
       \/ DeleteById(r)
       \/ Release(r)
       \/ Cancel(r)

Spec == Init /\ [][Next]_vars

----------------------------------------------------------------------------
(* The gateway serving one request after the other *)

NextSeq ==
    \/ req[1].pc \in {"idle"} \cup Terminal /\ started < MaxSeqRequests /\ Start(1)
    \/ SessionLookup(1)
    \/ CreateReturn(1)
    \/ DeleteSession(1)
    \/ Acquire(1)
    \/ AddEpisode(1)
    \/ Search(1)
    \/ DeleteQuery(1)
    \/ DeleteFound(1)
    \/ DeleteById(1)
    \/ Release(1)
    \/ Cancel(1)

SpecSeq == Init /\ [][NextSeq]_vars

----------------------------------------------------------------------------
(* The configuration cascade as a function of the configuration *)

InitCascade ==
    /\ conf \in Confs
    /\ sessions = [k \in Keys |-> <<>>]
    /\ episodes = {}
    /\ nextUid = 1
    /\ openScopes = 0
    /\ started = 0
    /\ lastDelete = NoDelete
    /\ req = [r \in Reqs |-> IdleReq]
    /\ installer = IdleInstaller

\* a first-use request finds its session absent and submits its create request
ProvisionFirstUse ==
    /\ \A r \in Reqs : req[r].pc = "idle"
    /\ \E r \in Reqs, op \in EnsureOps, k \in Keys, outcome \in {"notfound", "error"} :
          req' = [req EXCEPT ![r] = AfterLookup(Begin(op, k), outcome)]
    /\ UNCHANGED <<conf, installer, sessions, episodes, nextUid, openScopes, started, lastDelete>>

\* POST /projects submits its create request
ProvisionProject ==
    /\ \A r \in Reqs : req[r].pc = "idle"
    /\ \E r \in Reqs, k \in Keys :
          req' = [req EXCEPT ![r] = Begin("create_project", k)]
    /\ UNCHANGED <<conf, installer, sessions, episodes, nextUid, openScopes, started, lastDelete>>

NextCascade ==
    \/ ProvisionFirstUse
    \/ ProvisionProject
    \/ \E r \in Reqs : CreateReturn(r)
    \/ \E r \in Reqs : Acquire(r)

SpecCascade == InitCascade /\ [][NextCascade]_vars

----------------------------------------------------------------------------
(* parse_filter over the filter grammar: one request whose filter is of the  *)
(* form "k1=v1 and k2=v2", empty or absent                                  *)

GrammarKeys == {<<"k">>, <<"j">>, <<"b", "a", "n", "d">>}
GrammarValues == {<<"1">>, <<"2">>}
Pads == {<<>>, <<Space>>}

\* "k1=v1 and k2=v2", with pad around every key and value
GrammarFilter(k1, v1, k2, v2, pad) ==
    pad \o k1 \o pad \o <<"=">> \o pad \o v1 \o pad
        \o <<Space, "a", "n", "d", Space>>
        \o pad \o k2 \o pad \o <<"=">> \o pad \o v2 \o pad

GrammarFilters ==
    {PyNone, PyStr(<<>>)} \cup
    {PyStr(GrammarFilter(k1, v1, k2, v2, pad)) :
        k1 \in GrammarKeys, v1 \in GrammarValues,
        k2 \in GrammarKeys, v2 \in GrammarValues, pad \in Pads}

\* single clauses whose key or value contains the letters a-n-d
ClausePairs ==
    {<<<<"b", "r", "a", "n", "d">>, <<"x">>>>,
     <<<<"n", "a", "m", "e">>, <<"s", "a", "n", "d", "y">>>>}

ClauseFilters == {PyStr(p[1] \o <<"=">> \o p[2]) : p \in ClausePairs}

\* "k=a=b", alone, padded, and followed by a second clause
FirstEqualsFilters ==
    {PyStr(<<"k", "=", "a", "=", "b">>),
     PyStr(<<"k", Space, "=", Space, "a", "=", "b", Space>>),
     PyStr(<<"k", "=", "a", "=", "b", Space, "a", "n", "d", Space, "j", "=", "1">>)}

\* values that are neither a string nor None
NonStringFilters == {PyInt(0), PyInt(5), PyList(<<>>), PyList(<<<<"k", "=", "1">>>>)}

ParseInputs ==
    GrammarFilters \cup FilterInputs \cup ClauseFilters \cup FirstEqualsFilters
        \cup NonStringFilters

NextParse ==
    \/ req[1].pc = "idle" /\ Start(1)
    \/ SessionLookup(1)
    \/ CreateReturn(1)
    \/ Acquire(1)
    \/ SearchWith(1, ParseInputs)
    \/ DeleteQueryWith(1, ParseInputs)

SpecParse == Init /\ [][NextParse]_vars

----------------------------------------------------------------------------
(* The session key as a function of (org_id, project_id): two requests with *)
(* identifiers drawn from names with and without "/"                       *)

KeyNames == {<<"a">>, <<"a", "a">>, <<"a", "/">>, <<"/", "a">>}

NextKey == \E r \in Reqs : req[r].pc = "idle" /\ StartWith(r, KeyNames, KeyNames)

SpecKey == Init /\ [][NextKey]_vars

----------------------------------------------------------------------------
(* One run of Installer.install()                                           *)

InitInstall ==
    /\ conf = GatewayConf
    /\ sessions = [k \in Keys |-> <<>>]
    /\ episodes = {}
    /\ nextUid = 1
    /\ openScopes = 0
    /\ started = 0
    /\ lastDelete = NoDelete
    /\ req = [r \in Reqs |-> IdleReq]
    /\ installer \in InstallerStates

NextInstall ==
    \/ CheckNeo4jRunning
    \/ AskInstall
    \/ InstallAndStartNeo4j
    \/ BuildWizardArgs
    \/ RunWizard

SpecInstall == InitInstall /\ [][NextInstall]_vars

----------------------------------------------------------------------------
(* Properties *)

InFlight(q) == q.pc \notin {"idle"} \cup Terminal

BodyErrors == {"add_memory_episode", "query_memory", "delete_episodes"}

\* C1: a request that has ended holds no scope, whether it returned, failed in
\* its own work or was cancelled; with no request in flight no scope is open.
C1_ScopeReleased ==
    /\ \A r \in Reqs : req[r].pc \in Terminal => req[r].scope = NoScope
    /\ (\A r \in Reqs : ~InFlight(req[r])) => openScopes = 0

\* one request was cancelled inside its scope, the other failed in its own work
C1_Witness ==
    \E r1, r2 \in Reqs :
       /\ req[r1].pc = "cancelled" /\ req[r1].acquires = 1
       /\ req[r2].pc = "failed" /\ req[r2].err \in BodyErrors
       /\ openScopes = 0

\* C2: two requests for the same key that both took the session as absent and
\* both returned leave exactly one stored configuration for the key.
C2_OneConfigStored ==
    \A r1, r2 \in Reqs :
       (/\ r1 # r2
        /\ req[r1].key = req[r2].key
        /\ \A r \in {r1, r2} :
              /\ req[r].op \in {"add_memories", "search_memories", "list_memories"}
              /\ req[r].lookup \in {"notfound", "error"}
              /\ req[r].pc = "done")
       => Len(sessions[req[r1].key]) = 1

\* both existence checks ran before either create: both found nothing
C2_Witness ==
    \E r1, r2 \in Reqs :
       /\ r1 # r2
       /\ req[r1].key = req[r2].key
       /\ \A r \in {r1, r2} : req[r].lookup = "notfound" /\ req[r].pc = "done"
       /\ req[r1].provisioned /\ ~req[r2].provisioned
       /\ Len(sessions[req[r1].key]) = 1

\* a clause is of the form key=value
IsKeyValue(clause) == Contains(clause, <<"=">>)

\* the filter text is non-empty and has a clause that is not key=value
Malformed(f) ==
    /\ f.tag = "str"
    /\ f.v # <<>>
    /\ LET clauses == Split(f.v, <<"a", "n", "d">>)
       IN  \E j \in 1..Len(clauses) : ~IsKeyValue(clauses[j])

\* C3: a search or delete given a malformed filter is rejected with
\* InvalidFilterFormat and issues no query and no delete to the engine.
C3_FilterFailsClosed ==
    \A r \in Reqs :
       (req[r].filter # Unset /\ Malformed(req[r].filter))
       => /\ req[r].calls = <<>>
          /\ req[r].pc = "release"
          /\ req[r].exit = "failed"
          /\ req[r].err = "InvalidFilterFormat"

\* C4: a request whose scope acquisition failed has ended in
\* MemoryEngineUnavailable and has issued no add, query or delete.
C4_AcquireFailureDoesNoWork ==
    \A r \in Reqs :
       req[r].err = "MemoryEngineUnavailable"
       => /\ req[r].pc = "failed"
          /\ req[r].calls = <<>>
          /\ req[r].scope = NoScope

\* an add whose session was ensured failed to acquire its scope
C4_Witness ==
    \E r \in Reqs :
       /\ req[r].err = "MemoryEngineUnavailable"
       /\ req[r].op = "add_memories"
       /\ req[r].ensured
       /\ req[r].acquires = 1

\* C5: no request attempts to acquire a scope before ensure_session has
\* completed in that request, whatever its operation kind.
C5_EnsureBeforeAcquire ==
    \A r \in Reqs : req[r].acquires > 0 => req[r].ensured

\* C6 as written: a request whose acquisition failed has changed neither the
\* session store nor the memory engine.
C6_NoExternalState ==
    \A r \in Reqs :
       req[r].err = "MemoryEngineUnavailable"
       => ~req[r].provisioned /\ ~req[r].wrote

\* C6 amended: a request whose acquisition failed has changed nothing in the
\* memory engine; in the session store it has at most created the session of its
\* own key through ensure_session, and that session is then stored.
C6_OnlyOwnSessionCreated ==
    \A r \in Reqs :
       req[r].err = "MemoryEngineUnavailable"
       => /\ ~req[r].wrote
          /\ req[r].provisioned
                => /\ req[r].op \in {"add_memories", "search_memories", "list_memories"}
                   /\ sessions[req[r].key] = <<req[r].create>>

\* a first-use request created its session and then failed to acquire
C6_Witness ==
    \E r \in Reqs :
       /\ req[r].err = "MemoryEngineUnavailable"
       /\ req[r].provisioned
       /\ req[r].lookup = "notfound"

\* C7: with one request at a time and lookups that do not fail, a
\* create-session request is issued only for a key that has no stored session.
C7_CreatedOncePerSession ==
    [][\A r \in Reqs :
          (/\ req'[r].pc = "creating"
           /\ req[r].pc # "creating"
           /\ req'[r].lookup # "error")
          => sessions[req'[r].key] = <<>>]_vars


\* the configuration layers, read field by field
ConfLongTerm(c) ==
    IF c.present /\ c.episodic_memory.present /\ c.episodic_memory.long_term_memory.present
    THEN c.episodic_memory.long_term_memory ELSE NoLongTerm
ConfShortTerm(c) ==
    IF c.present /\ c.episodic_memory.present /\ c.episodic_memory.short_term_memory.present
    THEN c.episodic_memory.short_term_memory ELSE NoShortTerm
ConfPrompt(c) == IF c.present /\ c.prompt.present THEN c.prompt ELSE NoPrompt

\* the three-level chain for one field
Chain(explicit, stored, default) ==
    IF explicit # NoneStr THEN explicit ELSE IF stored # NoneStr THEN stored ELSE default

\* the per-request value of a field: POST /projects carries embedder and reranker
ExplicitValue(q, field) ==
    IF q.op = "create_project" /\ field = "embedder" THEN RequestEmbedder
    ELSE IF q.op = "create_project" /\ field = "reranker" THEN RequestReranker
    ELSE NoneStr

\* C8: every field of every create request is the per-request value if given,
\* else the configured value if present, else the default, field by field.  For
\* the user prompt the prompt configuration, when present, counts as supplying
\* the template, and the appended {max_length} clause is accepted.
C8_PerFieldCascade ==
    \A r \in Reqs :
       LET q == req[r]
           c == q.create
           ltm == ConfLongTerm(conf)
           stm == ConfShortTerm(conf)
           pr == ConfPrompt(conf)
           storedUser == IF stm.summary_prompt_user # NoneTpl
                         THEN stm.summary_prompt_user
                         ELSE IF pr.episode_summary_user_prompt = NullTpl THEN NoneTpl
                         ELSE pr.episode_summary_user_prompt
           user == IF storedUser # NoneTpl THEN storedUser ELSE DefaultUserPrompt
       IN  c # NoSubmit
           => /\ c.embedder = Chain(ExplicitValue(q, "embedder"), ltm.embedder, "default")
              /\ c.reranker = Chain(ExplicitValue(q, "reranker"), ltm.reranker, "default")
              /\ c.vector_graph_store =
                    Chain(NoneStr, ltm.vector_graph_store, "default_store")
              /\ c.llm_model = Chain(NoneStr, stm.llm_model, "gpt-4.1")
              /\ c.summary_prompt_system =
                    Chain(NoneStr,
                          Chain(NoneStr, stm.summary_prompt_system,
                                pr.episode_summary_system_prompt),
                          DefaultSystemPrompt)
              /\ c.summary_prompt_user \in
                    {user, user \o MaxLengthClause, storedUser \o MaxLengthClause}

\* C9: the user prompt of every create request contains {max_length}.
C9_MaxLengthAlways ==
    \A r \in Reqs :
       req[r].create # NoSubmit
       => Contains(req[r].create.summary_prompt_user, <<MaxLengthField>>)

C11_FoundCreatesNothing ==
    \A r \in Reqs :
       req[r].lookup = "found"
       => /\ req[r].create = NoSubmit
          /\ req[r].pc # "creating"
          /\ ~req[r].provisioned

\* an add for a stored session has completed
C11_Witness ==
    \E r \in Reqs :
       /\ req[r].lookup = "found"
       /\ req[r].op = "add_memories"
       /\ req[r].pc = "done"
       /\ sessions[req[r].key] # <<>>

\* the elements of a sequence
Range(seq) == {seq[j] : j \in 1..Len(seq)}

\* the identifiers the engine holds for key k under the parsed filter d
StoredIds(k, d) ==
    {ep.uid : ep \in {e \in episodes : Matches(e, k, <<>>, d) /\ e.uid # NoneUid}}

\* C12: a delete by filter issues one query (empty query text, the parsed
\* filter) and then one delete whose identifiers are exactly the non-null
\* identifiers the query found, each once.
C12_DeleteExactlyFound ==
    \A r \in Reqs :
       LET q == req[r]
           d == parse_filter(q.filter).dict
           query == Call("query", q.scope, <<>>, d, <<>>)
       IN  q.op = "delete_memories"
           => /\ q.pc = "deleting"
                 => /\ q.calls = <<query>>
                    /\ Range(q.found) = StoredIds(q.key, d)
                    /\ Len(q.found) = Cardinality(StoredIds(q.key, d))
              /\ (q.pc = "release" /\ q.exit = "done")
                 => /\ q.calls = <<query, Call("delete", q.scope, <<>>, EmptyDict, q.found)>>
                    /\ NoneUid \notin Range(q.found)
                    /\ StoredIds(q.key, d) = {}

\* a delete by filter removed an identified episode and left one without
\* identifier that the filter matches
C12_Witness ==
    \E r \in Reqs :
       /\ req[r].op = "delete_memories"
       /\ req[r].pc = "release"
       /\ req[r].exit = "done"
       /\ req[r].found # <<>>
       /\ \E e \in episodes :
             /\ e.uid = NoneUid
             /\ Matches(e, req[r].key, <<>>, parse_filter(req[r].filter).dict)

\* C13: the delete call of a delete by filter that repeats the delete by filter
\* completed just before (same session, same filter, no add in between) leaves
\* the episodes as they are, and the router raises nothing of its own.
C13_DeleteIdempotent ==
    [][\A r \in Reqs :
          (/\ req[r].op = "delete_memories"
           /\ req[r].pc = "deleting"
           /\ lastDelete = [key |-> req[r].key, filter |-> req[r].filter]
           /\ req'[r].pc # "deleting")
          => /\ episodes' = episodes
             /\ req'[r].err \in {"", "delete_episodes", "CancelledError"}]_vars

\* the repeated delete has completed, with episodes of the session still stored
C13_Witness ==
    \E r \in Reqs :
       /\ req[r].op = "delete_memories"
       /\ req[r].pc = "release"
       /\ req[r].exit = "done"
       /\ Len(req[r].calls) = 2
       /\ started = 3
       /\ lastDelete = [key |-> req[r].key, filter |-> req[r].filter]
       /\ req[r].filter = PyStr(<<"k", "=", "1">>)
       /\ episodes # {}

\* C14: parse_filter maps "k1=v1 and k2=v2", with or without blanks around the
\* keys and values, to {k1: v1, k2: v2}; the empty and the absent filter give
\* the empty mapping; none of them raises.
C14_ParseKeyValuePairs ==
    \A r \in Reqs :
       LET q == req[r]
       IN  (q.filter \in GrammarFilters /\ q.pc \in {"deleting", "release"} /\ q.exit # "cancelled")
           => /\ q.err # "InvalidFilterFormat"
              /\ \A k1, k2 \in GrammarKeys, v1, v2 \in GrammarValues, pad \in Pads :
                    (q.filter = PyStr(GrammarFilter(k1, v1, k2, v2, pad)) /\ q.calls # <<>>)
                    => q.calls[1].filter = DictSet(DictSet(EmptyDict, k1, v1), k2, v2)
              /\ (q.filter \in {PyNone, PyStr(<<>>)} /\ q.calls # <<>>)
                    => q.calls[1].filter = EmptyDict

\* does a search with this types list request partition p (absent and empty
\* lists request both)
Requested(types, p) == types.tag # "list" \/ types.v = <<>> \/ InList(p, types.v)

\* the response of a search that has returned
Responded(q) == q.op = "search_memories" /\ q.pc = "release" /\ q.exit = "done"

\* C15: the response of every search has both partition keys, and a partition
\* that was not requested is the empty sequence.
C15_BothPartitionsPresent ==
    \A r \in Reqs :
       LET q == req[r]
       IN  Responded(q)
           => /\ q.result # NoResult
              /\ DOMAIN q.result = {"episodic_memory", "semantic_memory"}
              /\ ~Requested(q.types, "episodic") => q.result.episodic_memory = <<>>
              /\ ~Requested(q.types, "semantic") => q.result.semantic_memory = <<>>

\* a search for the episodic partition only has returned stored episodes
C15_Witness ==
    \E r \in Reqs :
       /\ Responded(req[r])
       /\ req[r].types = PyList(<<"episodic">>)
       /\ req[r].calls # <<>>
       /\ req[r].result.episodic_memory.long_term # <<>>
       /\ req[r].result.semantic_memory = <<>>

\* C16: a search with types = ["semantic"] returns both partitions empty and
\* has issued no query, whatever the engine holds for the session.
C16_SemanticOnlyStub ==
    \A r \in Reqs :
       LET q == req[r]
       IN  (q.op = "search_memories" /\ q.types = PyList(<<"semantic">>))
           => /\ q.calls = <<>>
              /\ q.pc = "release" => q.exit = "done"
              /\ q.pc = "release"
                    => q.result = [episodic_memory |-> <<>>, semantic_memory |-> <<>>]

\* a semantic-only search has returned for a session that holds episodes
C16_Witness ==
    \E r \in Reqs :
       /\ Responded(req[r])
       /\ req[r].types = PyList(<<"semantic">>)
       /\ \E e \in episodes : e.session_key = req[r].key

\* C17: a list request issues no query, add or delete and writes nothing; when
\* it returns, its response has both partitions, both empty.
C17_ListStub ==
    \A r \in Reqs :
       LET q == req[r]
       IN  q.op = "list_memories"
           => /\ q.calls = <<>>
              /\ ~q.wrote
              /\ q.pc = "release"
                    => /\ q.exit = "done"
                       /\ q.result = [episodic_memory |-> <<>>, semantic_memory |-> <<>>]

\* a list request has returned, as the third request, for a session that holds
\* episodes
C17_Witness ==
    \E r \in Reqs :
       /\ req[r].op = "list_memories"
       /\ req[r].pc = "release"
       /\ started = 3
       /\ \E e \in episodes : e.session_key = req[r].key

\* does the metadata of an episode satisfy a well-formed filter
FilterAccepts(f, meta) ==
    \/ f = PyNone
    \/ f = PyStr(<<"k", "=", "1">>) /\ meta = Meta1

InScope(q) == q.pc \in {"body", "deleting", "release"}

\* C19: no request acquires more than once, and a request inside its block has
\* acquired exactly once; the handle a request holds is the one its own
\* acquisition yielded, no two requests hold the same handle, every engine call
\* of a request goes through the handle it holds, and a request that has ended
\* holds no handle.
C19_ScopeNeverShared ==
    /\ \A r \in Reqs :
          LET q == req[r]
          IN  /\ q.acquires <= 1
              /\ InScope(q) => q.acquires = 1 /\ q.scope # NoScope
              /\ q.scope # NoScope => InScope(q) /\ q.scope = [key |-> q.key, by |-> r]
              /\ \A c \in Range(q.calls) : c.handle = q.scope /\ q.scope # NoScope
              /\ q.pc \in Terminal => q.scope = NoScope /\ q.calls = <<>>
    /\ \A r1, r2 \in Reqs :
          (r1 # r2 /\ req[r1].scope # NoScope) => req[r1].scope # req[r2].scope

\* two requests for the same session are inside their blocks at the same time
\* and both have called the engine
C19_Witness ==
    \E r1, r2 \in Reqs :
       /\ r1 # r2
       /\ req[r1].key = req[r2].key
       /\ req[r1].pc = "deleting" /\ req[r1].calls # <<>>
       /\ req[r2].pc = "body" /\ req[r2].op = "add_memories" /\ req[r2].calls # <<>>

\* C20: a request whose session provisioning failed, in resolving the
\* configuration or in the create-session call, has failed without acquiring a
\* scope and without a call to the engine.
C20_ProvisioningFailureFatal ==
    \A r \in Reqs :
       req[r].err = "SessionProvisioningError"
       => /\ req[r].pc = "failed"
          /\ req[r].acquires = 0
          /\ req[r].scope = NoScope
          /\ req[r].calls = <<>>
          /\ ~req[r].wrote

\* an add failed in resolving the configuration: no create request was issued
C20_Witness ==
    \E r \in Reqs :
       /\ req[r].err = "SessionProvisioningError"
       /\ req[r].op = "add_memories"
       /\ req[r].create = NoSubmit
       /\ ResolveRaises(conf)

\* the identifier contains no "/"
NoSlash(name) == ~Contains(name, <<"/">>)

\* C21: every request that addresses a session has the key org_id "/"
\* project_id; requests with the same pair have the same key, and requests with
\* the same key have the same pair when no identifier contains "/".
C21_SessionKeyInjective ==
    \A r1, r2 \in Reqs :
       LET q1 == req[r1]
           q2 == req[r2]
       IN  (q1.key # <<>> /\ q2.key # <<>>)
           => /\ q1.key = q1.org_id \o <<"/">> \o q1.project_id
              /\ (q1.org_id = q2.org_id /\ q1.project_id = q2.project_id)
                    => q1.key = q2.key
              /\ (/\ NoSlash(q1.org_id) /\ NoSlash(q1.project_id)
                  /\ NoSlash(q2.org_id) /\ NoSlash(q2.project_id)
                  /\ q1.key = q2.key)
                    => q1.org_id = q2.org_id /\ q1.project_id = q2.project_id

\* an add for (a, aa) and a delete for (aa, a): the pairs differ, their plain
\* concatenations do not, and the keys differ
C21_Witness ==
    \E r1, r2 \in Reqs :
       /\ req[r1].op = "add_memories"
       /\ req[r1].org_id = <<"a">> /\ req[r1].project_id = <<"a", "a">>
       /\ req[r2].op = "delete_memories"
       /\ req[r2].org_id = <<"a", "a">> /\ req[r2].project_id = <<"a">>
       /\ req[r1].key # req[r2].key

\* C22: the step in which a delete_semantic_memory request is served changes
\* nothing in the session store, the engine or the open scopes, and the request
\* is done without a lookup, a create request, an acquisition or an engine call.
C22_SemanticDeleteNoOp ==
    [][\A r \in Reqs :
          (req'[r].op = "delete_semantic_memory" /\ req'[r] # req[r])
          => /\ sessions' = sessions
             /\ episodes' = episodes
             /\ nextUid' = nextUid
             /\ openScopes' = openScopes
             /\ req'[r].pc = "done"
             /\ req'[r].lookup = ""
             /\ req'[r].create = NoSubmit
             /\ ~req'[r].ensured
             /\ req'[r].acquires = 0
             /\ req'[r].scope = NoScope
             /\ req'[r].calls = <<>>
             /\ ~req'[r].wrote]_vars

\* a delete_semantic_memory has been served while the session is stored and
\* holds episodes
C22_Witness ==
    \E r \in Reqs :
       /\ req[r].op = "delete_semantic_memory"
       /\ req[r].pc = "done"
       /\ \E e \in episodes :
             /\ e.session_key = SessionKey(req[r].org_id, req[r].project_id)
             /\ sessions[e.session_key] # <<>>

\* C23: every use of get_episodic_memory with a valid body that has ended, ended
\* in HTTP 501, and none has acquired a handle.
C23_AccessorAlways501 ==
    \A r \in Reqs :
       (/\ req[r].op = "get_episodic_memory"
        /\ get_session_info(req[r].body).status = 200
        /\ req[r].pc \in {"done", "failed"})
       => /\ req[r].err = "HTTP 501"
          /\ req[r].acquires = 0
          /\ req[r].scope = NoScope

\* C24: a body that is not JSON is answered with HTTP 400; a JSON body that
\* lacks a required field is answered with HTTP 422 and the list of the missing
\* fields; 400 is given to no JSON body.
C24_BodyDecodingStatus ==
    \A r \in Reqs :
       LET q == req[r]
           missing == RequiredFields \ q.body.fields
       IN  q.op = "get_episodic_memory"
           => /\ ~q.body.json => q.pc = "failed" /\ q.err = "HTTP 400"
              /\ (q.body.json /\ missing # {})
                    => q.pc = "failed" /\ q.err = "HTTP 422" /\ q.detail = missing
              /\ q.err = "HTTP 400" => ~q.body.json

\* a JSON body without project_id was answered with 422 naming project_id
C24_Witness ==
    \E r \in Reqs :
       /\ req[r].op = "get_episodic_memory"
       /\ req[r].body = [json |-> TRUE, fields |-> {"org_id"}]
       /\ req[r].err = "HTTP 422"
       /\ req[r].detail = {"project_id"}

\* C25: of two requests for the same key that both found the session absent,
\* each has issued its own create-session request for the key: neither waits
\* for or is held back by the other.
C25_NoMutualExclusion ==
    \A r1, r2 \in Reqs :
       (/\ r1 # r2
        /\ req[r1].key = req[r2].key
        /\ req[r1].lookup = "notfound"
        /\ req[r2].lookup = "notfound")
       => \A r \in {r1, r2} :
             /\ req[r].create # NoSubmit
             /\ req[r].create.via = "first_use"
             /\ req[r].create.session_key = req[r].key

\* both existence checks reported absent before either create returned: two
\* create requests for the key are pending and nothing is stored yet
C25_Witness ==
    \E r1, r2 \in Reqs :
       /\ r1 # r2
       /\ req[r1].key = req[r2].key
       /\ \A r \in {r1, r2} :
             /\ req[r].lookup = "notfound"
             /\ req[r].pc = "creating"
             /\ req[r].create.session_key = req[r].key
       /\ sessions[req[r1].key] = <<>>

\* C26: the j-th call of an add is the submission of the j-th message; a
\* submission that succeeds stores that message; the step in which a submission
\* fails ends the loop with that error and leaves the engine as it is, and so
\* does the release that follows, which closes the scope.
C26_AddStopsAtFailure ==
    [][\A r \in Reqs :
          req'[r].op = "add_memories"
          => /\ \A j \in 1..Len(req'[r].calls) :
                   req'[r].calls[j] =
                      Call("add", req'[r].scope, <<>>, req'[r].messages[j].metadata, <<>>)
             /\ (req[r].pc = "body" /\ req'[r].i = req[r].i + 1)
                   => /\ episodes \subseteq episodes'
                      /\ \E e \in episodes' :
                            /\ e.session_key = req[r].key
                            /\ e.content = req[r].messages[req[r].i + 1].content
             /\ (req[r].pc = "body" /\ req'[r].exit = "failed")
                   => /\ episodes' = episodes
                      /\ req'[r].pc = "release"
                      /\ req'[r].err = "add_memory_episode"
                      /\ req'[r].i = req[r].i
                      /\ Len(req'[r].calls) = req[r].i + 1
             /\ (req[r].pc = "release" /\ req[r].exit = "failed")
                   => /\ episodes' = episodes
                      /\ req'[r].pc = "failed"
                      /\ openScopes' = openScopes - 1]_vars

\* the second message of an add failed after the first was stored
C26_Witness ==
    \E r \in Reqs :
       /\ req[r].op = "add_memories"
       /\ req[r].pc = "release"
       /\ req[r].exit = "failed"
       /\ req[r].n = 2
       /\ req[r].i = 1
       /\ Len(req[r].calls) = 2
       /\ \E e \in episodes :
             /\ e.session_key = req[r].key
             /\ e.content = req[r].messages[1].content

\* has the request handed its filter to parse_filter
Parsed(q) ==
    /\ q.filter # Unset
    /\ \/ q.op = "delete_memories"
       \/ q.op = "search_memories" /\ Requested(q.types, "episodic")

\* C27: a single clause whose key or value contains the letters a-n-d parses
\* to the one-entry mapping of its whole key to its whole value.
C27_AndInsideClause ==
    \A r \in Reqs :
       \A p \in ClausePairs :
          (Parsed(req[r]) /\ req[r].filter = PyStr(p[1] \o <<"=">> \o p[2]))
          => /\ req[r].err # "InvalidFilterFormat"
             /\ req[r].calls # <<>>
             /\ req[r].calls[1].filter = DictSet(EmptyDict, p[1], p[2])

\* C28: for the clause "k=a=b", padded or not and followed by another clause
\* or not, the key is k and the value is a=b.
C28_FirstEqualsOnly ==
    \A r \in Reqs :
       (Parsed(req[r]) /\ req[r].filter \in FirstEqualsFilters)
       => /\ req[r].err # "InvalidFilterFormat"
          /\ req[r].calls # <<>>
          /\ DOMAIN req[r].calls[1].filter \in {{<<"k">>}, {<<"k">>, <<"j">>}}
          /\ req[r].calls[1].filter[<<"k">>] = <<"a", "=", "b">>
          /\ <<"j">> \in DOMAIN req[r].calls[1].filter
                => req[r].calls[1].filter[<<"j">>] = <<"1">>

\* the padded clause "k = a=b " was parsed and the engine was queried with it
C28_Witness ==
    \E r \in Reqs :
       /\ req[r].op = "delete_memories"
       /\ req[r].filter = PyStr(<<"k", Space, "=", Space, "a", "=", "b", Space>>)
       /\ req[r].calls # <<>>
       /\ req[r].calls[1].filter = DictSet(EmptyDict, <<"k">>, <<"a", "=", "b">>)

\* C29: a clause without "=" adds no entry and raises nothing: "z" gives the
\* empty mapping and "k=1 and z" gives {k: 1}.
C29_BareClauseSkipped ==
    \A r \in Reqs :
       LET q == req[r]
       IN  (Parsed(q) /\ q.filter \in {PyStr(<<"z">>),
                                       PyStr(<<"k", "=", "1", " ", "a", "n", "d", " ", "z">>)})
           => /\ q.err # "InvalidFilterFormat"
              /\ q.calls # <<>>
              /\ q.calls[1].filter =
                    IF q.filter = PyStr(<<"z">>) THEN EmptyDict
                    ELSE DictSet(EmptyDict, <<"k">>, <<"1">>)

\* "k=1 and z" was parsed to {k: 1} and the engine was queried with it
C29_Witness ==
    \E r \in Reqs :
       /\ req[r].op = "search_memories"
       /\ req[r].filter = PyStr(<<"k", "=", "1", " ", "a", "n", "d", " ", "z">>)
       /\ req[r].calls # <<>>
       /\ req[r].calls[1].filter = DictSet(EmptyDict, <<"k">>, <<"1">>)

\* C30: for a filter that is a number or a list, parse_filter fails with the
\* invalid-filter-format error and the engine is not queried.
C30_NonStringRejected ==
    \A r \in Reqs :
       (Parsed(req[r]) /\ req[r].filter.tag \in {"int", "list"})
       => /\ req[r].err = "InvalidFilterFormat"
          /\ req[r].calls = <<>>

\* C31: an add that has returned has submitted every message of its batch, in
\* order, and each is stored in the request's session: with the parsed time
\* when its timestamp is ISO-8601, with the current time when it is not.
C31_UnparsableTimestampKept ==
    \A r \in Reqs :
       LET q == req[r]
       IN  (q.op = "add_memories" /\ q.pc = "release" /\ q.exit = "done")
           => /\ Len(q.calls) = Len(q.messages)
              /\ \A j \in 1..Len(q.messages) :
                    /\ q.calls[j].kind = "add"
                    /\ q.calls[j].filter = q.messages[j].metadata
                    /\ \E e \in episodes :
                          /\ e.session_key = q.key
                          /\ e.content = q.messages[j].content
                          /\ IF q.messages[j].timestamp = BadTimestamp
                             THEN e.created_at = utcnow
                             ELSE /\ e.created_at.tag = "datetime"
                                  /\ e.created_at.date = <<2024, 1, 2>>
                                  /\ e.created_at.time = <<3, 4, 5>>
                                  /\ e.created_at.tz = <<0>>

\* a batch of two whose first timestamp is no timestamp has returned, and both
\* messages are stored
C31_Witness ==
    \E r \in Reqs :
       /\ req[r].op = "add_memories"
       /\ req[r].pc = "release"
       /\ req[r].exit = "done"
       /\ Len(req[r].messages) = 2
       /\ req[r].messages[1].timestamp = BadTimestamp
       /\ Len(req[r].calls) = 2
       /\ Cardinality({e \in episodes : e.session_key = req[r].key}) = 2

\* C32: the step of a delete by identifier issues one call, a delete with the
\* list [episodic_id] on the scope the request holds; no filter is parsed and
\* nothing is queried, and the only episodes that can go are those of the
\* request's scope with that identifier.
C32_DeleteByIdDirect ==
    [][\A r \in Reqs :
          (req[r].op = "delete_episodic_memory" /\ req[r].pc = "body"
             /\ req'[r].pc = "release" /\ req'[r].exit # "cancelled")
          => /\ req[r].calls = <<>>
             /\ req'[r].episodic_id # NoneUid
             /\ req'[r].calls =
                   <<Call("delete", req[r].scope, <<>>, EmptyDict,
                          <<req'[r].episodic_id>>)>>
             /\ req'[r].filter = Unset
             /\ episodes' \subseteq episodes
             /\ \A e \in episodes \ episodes' :
                   e.uid = req'[r].episodic_id /\ e.session_key = req[r].key
             /\ req'[r].exit = "done"
                   => \A e \in episodes' :
                         ~(e.uid = req'[r].episodic_id /\ e.session_key = req[r].key)]_vars

\* episode 2 of a session was deleted by identifier and episode 1 of the same
\* session is still stored
C32_Witness ==
    \E r \in Reqs :
       /\ req[r].op = "delete_episodic_memory"
       /\ req[r].pc = "release"
       /\ req[r].exit = "done"
       /\ req[r].episodic_id = 2
       /\ req[r].wrote
       /\ Len(req[r].calls) = 1
       /\ \E e \in episodes : e.uid = 1 /\ e.session_key = req[r].key

\* C33: after every step of a request, the scope it holds and every engine
\* call it has made are for the key of its own (org_id, project_id); the step
\* has added and removed only episodes that carry that key, and a search has
\* returned only such episodes.
C33_SessionIsolation ==
    [][\A r \in Reqs :
          LET q == req'[r]
          IN  q # req[r]
              =>
              /\ q.scope # NoScope
                    => /\ q.scope.key = q.key
                       /\ q.key = q.org_id \o <<"/">> \o q.project_id
              /\ \A c \in Range(q.calls) : c.handle.key = q.key
              /\ \A e \in (episodes' \ episodes) \cup (episodes \ episodes') :
                    e.session_key = req[r].key
              /\ (Responded(q) /\ Requested(q.types, "episodic"))
                    => \A e \in Range(q.result.episodic_memory.short_term)
                                   \cup Range(q.result.episodic_memory.long_term) :
                          e.session_key = q.key]_vars

\* a delete of everything in one session has found nothing while an episode
\* that another request added to the other session of the organisation is stored
C33_Witness ==
    \E r1, r2 \in Reqs :
       /\ req[r1].op = "add_memories"
       /\ req[r1].wrote
       /\ req[r1].key # req[r2].key
       /\ req[r2].op = "delete_memories"
       /\ req[r2].pc = "deleting"
       /\ req[r2].filter = PyNone
       /\ req[r2].found = <<>>
       /\ \E e \in episodes : e.session_key = req[r1].key /\ e.uid # NoneUid

\* has install() got as far as the configuration wizard
ReachedWizard(i) ==
    /\ i.wizard_args # NoWizardArgs
    /\ i.pc \in {"wizard", "done"} \/ (i.pc = "failed" /\ i.err = "run_wizard")

\* C34: past the Neo4j check and the making of the wizard's arguments,
\* install() with Neo4j running has installed nothing and is at the wizard with
\* neo4j_provided false; with Neo4j not running and the answer y it has
\* installed Neo4j and, unless the installation failed, is at the wizard with
\* neo4j_provided true; with any other answer it has failed with the
\* installer's exception, nothing installed and no wizard made or run.
C34_InstallReachesWizard ==
    LET i == installer
    IN  /\ (i.running /\ i.pc \in {"wizard", "done", "failed"})
              => /\ ~i.asked
                 /\ ~i.installed
                 /\ ReachedWizard(i)
                 /\ i.wizard_args.neo4j_provided = "False"
        /\ (~i.running /\ i.choice = <<"y">> /\ i.pc \in {"wizard", "done", "failed"})
              => \/ i.err = "install_and_start_neo4j" /\ ~i.installed /\ ~i.wizard_ran
                 \/ /\ i.installed
                    /\ ReachedWizard(i)
                    /\ i.wizard_args.neo4j_provided = "True"
        /\ (~i.running /\ i.asked /\ i.choice # <<"y">>)
              => /\ i.pc = "failed"
                 /\ i.err = "Exception"
                 /\ ~i.installed
                 /\ i.wizard_args = NoWizardArgs
                 /\ ~i.wizard_ran

====
